---- MODULE Spec2Model ----
(***************************************************************************)
(* Heartbeat-driven lifecycle controller of the walking daemon             *)
(* (src/walking_with_claude/daemon.py).                                    *)
(*                                                                         *)
(* The daemon is a single asyncio event loop: request handlers, the        *)
(* watchdog task and the shutdown hook are coroutines that run atomically  *)
(* between two awaits on the pad (the BLE device gateway) and interleave   *)
(* only at those awaits.  Every action below is one such atomic segment.   *)
(* A pad operation is issued by the segment that calls it and takes effect *)
(* on the pad (or raises) in the segment that resumes the caller.          *)
(*                                                                         *)
(* Units: speeds are tenths of km/h (2.0 km/h = 20), times are seconds.    *)
(***************************************************************************)
EXTENDS Integers, FiniteSets, Bags, TLC

\* ---------------------------------------------------------------- config
SLOW_AFTER == 30
STOP_AFTER == 60
MIN_SPEED == 10
DEFAULT_SPEED == 20

\* ---------------------------------------------------------------- bounds
\* Largest number of request handlers suspended on pad I/O at one time.
MaxInflight == 1
\* Seconds that pass in one step of the clock.
TimeStep == 30

\* ---------------------------------------------------------------- inputs
\* body.get("speed") absent / body.get("session") absent
NoSpeed == -1
NoSession == "<absent>"
\* speeds a request may carry: below, inside and above the allowed range
SpeedInputs == {3, 20, 100}
\* session tokens a request may carry; "" is the falsy string
SessionInputs == {"a", ""}
Tokens == SessionInputs \cup {"default"}

VARIABLES
    last_heartbeat,  \* 0 = unset (0.0 in the source)
    target_speed,
    sessions,
    pad,             \* the gateway's observable properties
    slowed,          \* the watchdog's local flag
    wd,              \* where the watchdog task is: "sleep", suspended in
                     \* "stop" / "set_speed", or "dead" (an exception left it)
    sd,              \* where _shutdown is: "off", "stop", "disconnect", "done"
    inflight,        \* bag of request handlers suspended on pad I/O
    \* ---- history variables (observers, never read by the program)
    quiesced,        \* no further heartbeat/start/speed request will arrive
    last_signal,     \* arrival time of the last heartbeat/start/speed request
    slow_cmds,       \* watchdog set_speed(MIN_SPEED) calls since last_signal
    stop_cmds,       \* watchdog stop calls since last_signal
    live,            \* tokens heartbeaten and not ended/stopped since
    ticked,          \* the last step was a watchdog wake-up
    unavailable      \* the last step answered a request with status 503

vars == <<last_heartbeat, target_speed, sessions, pad, slowed, wd, sd,
          inflight, quiesced, last_signal, slow_cmds, stop_cmds, live, ticked,
          unavailable>>

\* ---------------------------------------------------------------- clock
\* time.time().  Timestamps are kept relative to the present instant: the
\* clock always reads `now`, and when time passes every stored timestamp
\* moves back instead (see Advance).  The program only ever uses the age
\* now - t of a timestamp and tests t against 0.
now == STOP_AFTER + 2 * TimeStep
\* The oldest timestamp kept apart: its age is beyond STOP_AFTER, so is the
\* age of anything older, and the program treats all of these alike.
Oldest == now - (STOP_AFTER + TimeStep)

\* ---------------------------------------------------------------- helpers
\* Python's min/max on two arguments: the first wins ties.
PyMin(a, b) == IF b < a THEN b ELSE a
PyMax(a, b) == IF b > a THEN b ELSE a

\* Clamp without its upper limit.
Clamp_unbounded(speed) == PyMax(5, speed)

\* max(0.5, min(6.0, float(speed)))
Clamp(speed) == PyMax(5, PyMin(60, speed))

\* truthiness of body.get("session", None)
Truthy(session) == session # NoSession /\ session # ""

\* A suspended handler: which handler, the pad call it awaits, and the
\* locals it still needs after the await.
Frame(op, pc, has_speed, no_token, arg) ==
    [op |-> op, pc |-> pc, has_speed |-> has_speed, no_token |-> no_token,
     arg |-> arg]

Cmds == {"start", "set_speed", "stop"}

Parked(bag, r) == bag (+) SetToBag({r})
Resumed(bag, r) == bag (-) SetToBag({r})
CanPark == BagCardinality(inflight) < MaxInflight

\* ---------------------------------------------------------------- gateway
\* Effects of the pad operations when they succeed.  A failing operation
\* raises and leaves the pad as it was.
pad_connect(p) == [p EXCEPT !.connected = TRUE]
pad_disconnect(p) == [p EXCEPT !.connected = FALSE]
pad_start(p, speed) == [p EXCEPT !.running = TRUE, !.speed = speed]
pad_set_speed(p, speed) == [p EXCEPT !.speed = speed]
pad_stop(p) == [p EXCEPT !.running = FALSE, !.speed = 0]

\* ---------------------------------------------------------------- _state
NoAge == -1
_state ==
    [connected |-> pad.connected,
     running |-> pad.running,
     speed |-> pad.speed,
     target_speed |-> target_speed,
     sessions |-> Cardinality(sessions),
     last_heartbeat_ago |->
        IF last_heartbeat # 0 THEN now - last_heartbeat ELSE NoAge]

\* ---------------------------------------------------------------- init
Init ==
    /\ last_heartbeat = 0
    /\ target_speed = DEFAULT_SPEED
    /\ sessions = {}
    /\ pad = [connected |-> FALSE, running |-> FALSE, speed |-> 0]
    /\ slowed = FALSE
    /\ wd = "sleep"
    /\ sd = "off"
    /\ inflight = EmptyBag
    /\ quiesced = FALSE
    /\ last_signal = 0
    /\ slow_cmds = 0
    /\ stop_cmds = 0
    /\ live = {}
    /\ ticked = FALSE
    /\ unavailable = FALSE

\* A heartbeat, start or speed request has arrived.
Signal ==
    /\ last_signal' = now
    /\ slow_cmds' = 0
    /\ stop_cmds' = 0

NoSignal == UNCHANGED <<last_signal, slow_cmds, stop_cmds>>

\* The server accepts requests: not shutting down.
Serving == sd = "off"

\* ---------------------------------------------------------------- heartbeat
\* heartbeat_next starting the device again when a speed comes with the
\* heartbeat of a running device.
heartbeat_next_restarting(bag, has_speed) ==
    IF ~pad.running \/ has_speed
    THEN Parked(bag, Frame("heartbeat", "start", FALSE, FALSE, target_speed'))
    ELSE bag

\* heartbeat_next setting the running device to the target speed whether or
\* not a speed came with the heartbeat.
heartbeat_next_resuming(bag, has_speed) ==
    IF ~pad.running
    THEN Parked(bag, Frame("heartbeat", "start", FALSE, FALSE, target_speed'))
    ELSE Parked(bag, Frame("heartbeat", "set_speed", FALSE, FALSE,
                           target_speed'))

\* Lines 97-103: the bag after the handler went on from a connected pad.
heartbeat_next(bag, has_speed) ==
    IF ~pad.running
    THEN Parked(bag, Frame("heartbeat", "start", FALSE, FALSE, target_speed'))
    ELSE IF has_speed
         THEN Parked(bag, Frame("heartbeat", "set_speed", FALSE, FALSE,
                                target_speed'))
         ELSE bag

handle_heartbeat(session, speed) ==
    /\ Serving /\ ~quiesced
    /\ LET session_id == IF session = NoSession THEN "default" ELSE session
       IN /\ last_heartbeat' = now
          /\ sessions' = sessions \cup {session_id}
          /\ live' = live \cup {session_id}
    /\ target_speed' = IF speed # NoSpeed THEN Clamp(speed) ELSE target_speed
    /\ inflight' = IF ~pad.connected
                   THEN Parked(inflight, Frame("heartbeat", "connect",
                                               speed # NoSpeed, FALSE, 0))
                   ELSE heartbeat_next(inflight, speed # NoSpeed)
    /\ inflight' # inflight => CanPark
    /\ Signal
    /\ ticked' = FALSE
    /\ unavailable' = FALSE
    /\ UNCHANGED <<pad, slowed, wd, sd, quiesced>>

\* handle_heartbeat_connected answering 200 and going on to the pad command
\* although pad.connect() raised.
handle_heartbeat_connected_silent(r, ok) ==
    /\ sd # "done"
    /\ r \in BagToSet(inflight) /\ r.op = "heartbeat" /\ r.pc = "connect"
    /\ target_speed' = target_speed
    /\ pad' = IF ok THEN pad_connect(pad) ELSE pad
    /\ inflight' = heartbeat_next(Resumed(inflight, r), r.has_speed)
    /\ ticked' = FALSE
    /\ unavailable' = FALSE
    /\ NoSignal
    /\ UNCHANGED <<last_heartbeat, sessions, slowed, wd, sd, quiesced,
                   live>>

\* handle_heartbeat_connected taking the heartbeat back when pad.connect()
\* raised.
handle_heartbeat_connected_undoing(r, ok) ==
    /\ sd # "done"
    /\ r \in BagToSet(inflight) /\ r.op = "heartbeat" /\ r.pc = "connect"
    /\ target_speed' = target_speed
    /\ IF ok
       THEN /\ pad' = pad_connect(pad)
            /\ inflight' = heartbeat_next(Resumed(inflight, r), r.has_speed)
            /\ UNCHANGED <<last_heartbeat, sessions>>
       ELSE /\ pad' = pad
            /\ inflight' = Resumed(inflight, r)
            /\ last_heartbeat' = 0
            /\ sessions' = {}
    /\ ticked' = FALSE
    /\ unavailable' = ~ok
    /\ NoSignal
    /\ UNCHANGED <<slowed, wd, sd, quiesced, live>>

\* pad.connect() returns (ok) or raises (~ok): lines 92-101.
handle_heartbeat_connected(r, ok) ==
    /\ sd # "done"
    /\ r \in BagToSet(inflight) /\ r.op = "heartbeat" /\ r.pc = "connect"
    /\ target_speed' = target_speed
    /\ IF ok
       THEN /\ pad' = pad_connect(pad)
            /\ inflight' = heartbeat_next(Resumed(inflight, r), r.has_speed)
       ELSE /\ pad' = pad
            /\ inflight' = Resumed(inflight, r)
    /\ ticked' = FALSE
    /\ unavailable' = ~ok
    /\ NoSignal
    /\ UNCHANGED <<last_heartbeat, sessions, slowed, wd, sd, quiesced,
                   live>>

\* pad.start() / pad.set_speed() returns or raises: lines 98-103.
handle_heartbeat_done(r, ok) ==
    /\ sd # "done"
    /\ r \in BagToSet(inflight) /\ r.op = "heartbeat"
    /\ r.pc \in {"start", "set_speed"}
    /\ pad' = IF ~ok THEN pad
              ELSE IF r.pc = "start" THEN pad_start(pad, r.arg)
              ELSE pad_set_speed(pad, r.arg)
    /\ inflight' = Resumed(inflight, r)
    /\ ticked' = FALSE
    /\ unavailable' = FALSE
    /\ NoSignal
    /\ UNCHANGED <<last_heartbeat, target_speed, sessions, slowed, wd,
                   sd, quiesced, live>>

\* ---------------------------------------------------------------- start
handle_start(speed) ==
    /\ Serving /\ ~quiesced
    /\ CanPark
    /\ target_speed' = Clamp(IF speed # NoSpeed THEN speed ELSE DEFAULT_SPEED)
    /\ last_heartbeat' = now
    /\ inflight' = IF ~pad.connected
                   THEN Parked(inflight,
                               Frame("start", "connect", FALSE, FALSE, 0))
                   ELSE Parked(inflight,
                               Frame("start", "start", FALSE, FALSE,
                                     target_speed'))
    /\ Signal
    /\ ticked' = FALSE
    /\ unavailable' = FALSE
    /\ UNCHANGED <<sessions, pad, slowed, wd, sd, quiesced, live>>

\* handle_start_connected going on to pad.start() although pad.connect()
\* raised.
handle_start_connected_unchecked(r, ok) ==
    /\ sd # "done"
    /\ r \in BagToSet(inflight) /\ r.op = "start" /\ r.pc = "connect"
    /\ pad' = IF ok THEN pad_connect(pad) ELSE pad
    /\ inflight' = Parked(Resumed(inflight, r),
                          Frame("start", "start", FALSE, FALSE, target_speed))
    /\ ticked' = FALSE
    /\ unavailable' = FALSE
    /\ NoSignal
    /\ UNCHANGED <<last_heartbeat, target_speed, sessions, slowed, wd,
                   sd, quiesced, live>>

\* pad.connect() returns or raises: lines 121-127.
handle_start_connected(r, ok) ==
    /\ sd # "done"
    /\ r \in BagToSet(inflight) /\ r.op = "start" /\ r.pc = "connect"
    /\ IF ok
       THEN /\ pad' = pad_connect(pad)
            /\ inflight' = Parked(Resumed(inflight, r),
                                  Frame("start", "start", FALSE, FALSE,
                                        target_speed))
       ELSE /\ pad' = pad
            /\ inflight' = Resumed(inflight, r)
    /\ ticked' = FALSE
    /\ unavailable' = ~ok
    /\ NoSignal
    /\ UNCHANGED <<last_heartbeat, target_speed, sessions, slowed, wd,
                   sd, quiesced, live>>

\* pad.start() returns or raises: lines 127-129.
handle_start_done(r, ok) ==
    /\ sd # "done"
    /\ r \in BagToSet(inflight) /\ r.op = "start" /\ r.pc = "start"
    /\ pad' = IF ok THEN pad_start(pad, r.arg) ELSE pad
    /\ inflight' = Resumed(inflight, r)
    /\ ticked' = FALSE
    /\ unavailable' = FALSE
    /\ NoSignal
    /\ UNCHANGED <<last_heartbeat, target_speed, sessions, slowed, wd,
                   sd, quiesced, live>>

\* ---------------------------------------------------------------- stop
handle_stop(session) ==
    /\ Serving
    /\ LET left == IF Truthy(session) /\ session \in sessions
                   THEN sessions \ {session} ELSE sessions
       IN IF session = NoSession \/ left = {}
          THEN IF pad.connected /\ pad.running
               THEN /\ CanPark
                    /\ inflight' = Parked(inflight,
                                          Frame("stop", "stop", FALSE,
                                                session = NoSession, 0))
                    /\ sessions' = left
                    /\ last_heartbeat' = last_heartbeat
                    /\ live' = live \ {session}
               ELSE /\ inflight' = inflight
                    /\ last_heartbeat' = 0
                    /\ sessions' = {}
                    /\ live' = IF session = NoSession THEN {}
                               ELSE live \ {session}
          ELSE /\ inflight' = inflight
               /\ sessions' = left
               /\ last_heartbeat' = last_heartbeat
               /\ live' = live \ {session}
    /\ ticked' = FALSE
    /\ unavailable' = FALSE
    /\ NoSignal
    /\ UNCHANGED <<target_speed, pad, slowed, wd, sd, quiesced>>

\* handle_stop_done without sessions.clear().
handle_stop_done_keeping(r, ok) ==
    /\ sd # "done"
    /\ r \in BagToSet(inflight) /\ r.op = "stop" /\ r.pc = "stop"
    /\ inflight' = Resumed(inflight, r)
    /\ IF ok
       THEN /\ pad' = pad_stop(pad)
            /\ last_heartbeat' = 0
            /\ UNCHANGED <<sessions, live>>
       ELSE UNCHANGED <<pad, last_heartbeat, sessions, live>>
    /\ ticked' = FALSE
    /\ unavailable' = FALSE
    /\ NoSignal
    /\ UNCHANGED <<target_speed, slowed, wd, sd, quiesced>>

\* pad.stop() returns or raises: lines 149-154.
handle_stop_done(r, ok) ==
    /\ sd # "done"
    /\ r \in BagToSet(inflight) /\ r.op = "stop" /\ r.pc = "stop"
    /\ inflight' = Resumed(inflight, r)
    /\ IF ok
       THEN /\ pad' = pad_stop(pad)
            /\ last_heartbeat' = 0
            /\ sessions' = {}
            /\ live' = IF r.no_token THEN {} ELSE live
       ELSE UNCHANGED <<pad, last_heartbeat, sessions, live>>
    /\ ticked' = FALSE
    /\ unavailable' = FALSE
    /\ NoSignal
    /\ UNCHANGED <<target_speed, slowed, wd, sd, quiesced>>

\* ---------------------------------------------------------------- speed
\* handle_speed without its test of pad.connected and pad.running.
handle_speed_untested(speed) ==
    /\ Serving /\ ~quiesced
    /\ target_speed' = Clamp(IF speed # NoSpeed THEN speed ELSE DEFAULT_SPEED)
    /\ last_heartbeat' = now
    /\ CanPark
    /\ inflight' = Parked(inflight,
                          Frame("speed", "set_speed", FALSE, FALSE,
                                target_speed'))
    /\ Signal
    /\ ticked' = FALSE
    /\ unavailable' = FALSE
    /\ UNCHANGED <<sessions, pad, slowed, wd, sd, quiesced, live>>

handle_speed(speed) ==
    /\ Serving /\ ~quiesced
    /\ target_speed' = Clamp(IF speed # NoSpeed THEN speed ELSE DEFAULT_SPEED)
    /\ last_heartbeat' = now
    /\ IF pad.connected /\ pad.running
       THEN /\ CanPark
            /\ inflight' = Parked(inflight,
                                  Frame("speed", "set_speed", FALSE, FALSE,
                                        target_speed'))
       ELSE inflight' = inflight
    /\ Signal
    /\ ticked' = FALSE
    /\ unavailable' = FALSE
    /\ UNCHANGED <<sessions, pad, slowed, wd, sd, quiesced, live>>

\* pad.set_speed() returns or raises: lines 172-175.
handle_speed_done(r, ok) ==
    /\ sd # "done"
    /\ r \in BagToSet(inflight) /\ r.op = "speed" /\ r.pc = "set_speed"
    /\ pad' = IF ok THEN pad_set_speed(pad, r.arg) ELSE pad
    /\ inflight' = Resumed(inflight, r)
    /\ ticked' = FALSE
    /\ unavailable' = FALSE
    /\ NoSignal
    /\ UNCHANGED <<last_heartbeat, target_speed, sessions, slowed, wd,
                   sd, quiesced, live>>

\* ---------------------------------------------------------------- status
handle_status ==
    /\ Serving
    /\ ticked' = FALSE
    /\ unavailable' = FALSE
    /\ NoSignal
    /\ UNCHANGED <<last_heartbeat, target_speed, sessions, pad, slowed,
                   wd, sd, inflight, quiesced, live>>

\* ---------------------------------------------------------------- session/end
\* handle_session_end clearing the clock as handle_stop does.
handle_session_end_clearing(session) ==
    /\ Serving
    /\ LET session_id == IF session = NoSession THEN "default" ELSE session
       IN /\ sessions' = sessions \ {session_id}
          /\ live' = live \ {session_id}
    /\ IF sessions' = {} /\ pad.connected /\ pad.running
       THEN /\ CanPark
            /\ inflight' = Parked(inflight,
                                  Frame("session_end", "stop", FALSE, FALSE,
                                        0))
       ELSE inflight' = inflight
    /\ last_heartbeat' = IF sessions' = {} THEN 0 ELSE last_heartbeat
    /\ ticked' = FALSE
    /\ unavailable' = FALSE
    /\ NoSignal
    /\ UNCHANGED <<target_speed, pad, slowed, wd, sd, quiesced>>

handle_session_end(session) ==
    /\ Serving
    /\ LET session_id == IF session = NoSession THEN "default" ELSE session
       IN /\ sessions' = sessions \ {session_id}
          /\ live' = live \ {session_id}
    /\ IF sessions' = {} /\ pad.connected /\ pad.running
       THEN /\ CanPark
            /\ inflight' = Parked(inflight,
                                  Frame("session_end", "stop", FALSE, FALSE,
                                        0))
       ELSE inflight' = inflight
    /\ ticked' = FALSE
    /\ unavailable' = FALSE
    /\ NoSignal
    /\ UNCHANGED <<last_heartbeat, target_speed, pad, slowed, wd, sd,
                   quiesced>>

\* pad.stop() returns or raises: lines 196-199.
handle_session_end_done(r, ok) ==
    /\ sd # "done"
    /\ r \in BagToSet(inflight) /\ r.op = "session_end" /\ r.pc = "stop"
    /\ pad' = IF ok THEN pad_stop(pad) ELSE pad
    /\ inflight' = Resumed(inflight, r)
    /\ ticked' = FALSE
    /\ unavailable' = FALSE
    /\ NoSignal
    /\ UNCHANGED <<last_heartbeat, target_speed, sessions, slowed, wd,
                   sd, quiesced, live>>

\* ---------------------------------------------------------------- watchdog
\* The history counters saturate here.
MaxCmds == 2
Counted(n) == PyMin(MaxCmds, n + 1)

\* One wake-up of the loop, from the return of asyncio.sleep(5) to the next
\* await: lines 212-231.
watchdog ==
    /\ wd = "sleep" /\ sd # "done"
    /\ ticked' = TRUE
    /\ unavailable' = FALSE
    /\ IF last_heartbeat = 0 \/ ~pad.running
       THEN /\ slowed' = FALSE
            /\ UNCHANGED <<wd, slow_cmds, stop_cmds>>
       ELSE LET elapsed == now - last_heartbeat
            IN IF elapsed > STOP_AFTER
               THEN IF pad.connected /\ pad.running
                    THEN /\ wd' = "stop"
                         /\ stop_cmds' = Counted(stop_cmds)
                         /\ UNCHANGED <<slowed, slow_cmds>>
                    ELSE /\ slowed' = FALSE
                         /\ UNCHANGED <<wd, slow_cmds, stop_cmds>>
               ELSE IF elapsed > SLOW_AFTER /\ ~slowed
                    THEN IF pad.connected /\ pad.running
                         THEN /\ wd' = "set_speed"
                              /\ slow_cmds' = Counted(slow_cmds)
                              /\ UNCHANGED <<slowed, stop_cmds>>
                         ELSE /\ slowed' = TRUE
                              /\ UNCHANGED <<wd, slow_cmds, stop_cmds>>
                    ELSE UNCHANGED <<slowed, wd, slow_cmds, stop_cmds>>
    /\ UNCHANGED <<last_heartbeat, target_speed, sessions, pad, sd,
                   inflight, quiesced, last_signal, live>>

\* pad.stop() / pad.set_speed(MIN_SPEED) returns or raises: lines 222-231.
\* Nothing in the loop catches: a raise ends the task.
watchdog_resumed(ok) ==
    /\ wd \in {"stop", "set_speed"} /\ sd # "done"
    /\ ticked' = FALSE
    /\ unavailable' = FALSE
    /\ IF ~ok
       THEN /\ wd' = "dead"
            /\ UNCHANGED <<pad, sessions, slowed, live>>
       ELSE /\ wd' = "sleep"
            /\ IF wd = "stop"
               THEN /\ pad' = pad_stop(pad)
                    /\ sessions' = {}
                    /\ live' = {}
                    /\ slowed' = FALSE
               ELSE /\ pad' = pad_set_speed(pad, MIN_SPEED)
                    /\ slowed' = TRUE
                    /\ UNCHANGED <<sessions, live>>
    /\ NoSignal
    /\ UNCHANGED <<last_heartbeat, target_speed, sd, inflight, quiesced>>

\* ---------------------------------------------------------------- shutdown
\* The server runs on_shutdown once no request is being handled; the
\* watchdog task is still alive then.  Lines 238-247, up to the first await.
_shutdown ==
    /\ sd = "off" /\ inflight = EmptyBag
    /\ sd' = IF pad.connected /\ pad.running THEN "stop"
             ELSE IF pad.connected THEN "disconnect"
             ELSE "done"
    /\ ticked' = FALSE
    /\ unavailable' = FALSE
    /\ NoSignal
    /\ UNCHANGED <<last_heartbeat, target_speed, sessions, pad, slowed,
                   wd, inflight, quiesced, live>>

\* _shutdown_resumed with the exception of pad.stop() leaving _shutdown.
_shutdown_resumed_uncaught(ok) ==
    /\ sd \in {"stop", "disconnect"}
    /\ pad' = IF ~ok THEN pad
              ELSE IF sd = "stop" THEN pad_stop(pad)
              ELSE pad_disconnect(pad)
    /\ sd' = IF sd = "stop" /\ ~ok THEN "raised"
             ELSE IF sd = "stop" /\ pad'.connected THEN "disconnect"
             ELSE "done"
    /\ ticked' = FALSE
    /\ unavailable' = FALSE
    /\ NoSignal
    /\ UNCHANGED <<last_heartbeat, target_speed, sessions, slowed, wd,
                   inflight, quiesced, live>>

\* pad.stop() / pad.disconnect() returns or raises; both are caught:
\* lines 243-252.
_shutdown_resumed(ok) ==
    /\ sd \in {"stop", "disconnect"}
    /\ pad' = IF ~ok THEN pad
              ELSE IF sd = "stop" THEN pad_stop(pad)
              ELSE pad_disconnect(pad)
    /\ sd' = IF sd = "stop" /\ pad'.connected THEN "disconnect" ELSE "done"
    /\ ticked' = FALSE
    /\ unavailable' = FALSE
    /\ NoSignal
    /\ UNCHANGED <<last_heartbeat, target_speed, sessions, slowed, wd,
                   inflight, quiesced, live>>

\* ---------------------------------------------------------------- time
\* A timestamp after TimeStep more seconds have passed.
Aged(t) == IF t = 0 THEN 0 ELSE PyMax(t - TimeStep, Oldest)

\* TimeStep seconds pass.
Advance ==
    /\ sd # "done"
    /\ last_heartbeat' = Aged(last_heartbeat)
    /\ last_signal' = Aged(last_signal)
    /\ ticked' = FALSE
    /\ unavailable' = FALSE
    /\ UNCHANGED <<target_speed, sessions, pad, slowed, wd, sd, inflight,
                   quiesced, slow_cmds, stop_cmds, live>>

\* From here on no heartbeat, start or speed request arrives.
Quiesce ==
    /\ ~quiesced
    /\ quiesced' = TRUE
    /\ ticked' = FALSE
    /\ unavailable' = FALSE
    /\ NoSignal
    /\ UNCHANGED <<last_heartbeat, target_speed, sessions, pad, slowed,
                   wd, sd, inflight, live>>

\* ---------------------------------------------------------------- system
\* The requests that arrive, with `sessions` and `speeds` the values their
\* bodies may carry (beside carrying none).
Requests(tokens, speeds) ==
    \/ \E s \in tokens \cup {NoSession}, v \in speeds \cup {NoSpeed} :
          handle_heartbeat(s, v)
    \/ \E v \in speeds \cup {NoSpeed} : handle_start(v)
    \/ \E s \in tokens \cup {NoSession} : handle_stop(s)
    \/ \E v \in speeds \cup {NoSpeed} : handle_speed(v)
    \/ handle_status
    \/ \E s \in tokens \cup {NoSession} : handle_session_end(s)

\* The pad operations that return (TRUE) or raise (FALSE) to the handlers
\* and to the watchdog, with `outcomes` the outcomes they may have.
Returns(outcomes) ==
    \/ \E r \in BagToSet(inflight), ok \in outcomes :
          handle_heartbeat_connected(r, ok)
    \/ \E r \in BagToSet(inflight), ok \in outcomes :
          handle_heartbeat_done(r, ok)
    \/ \E r \in BagToSet(inflight), ok \in outcomes :
          handle_start_connected(r, ok)
    \/ \E r \in BagToSet(inflight), ok \in outcomes : handle_start_done(r, ok)
    \/ \E r \in BagToSet(inflight), ok \in outcomes : handle_stop_done(r, ok)
    \/ \E r \in BagToSet(inflight), ok \in outcomes : handle_speed_done(r, ok)
    \/ \E r \in BagToSet(inflight), ok \in outcomes :
          handle_session_end_done(r, ok)
    \/ \E ok \in outcomes : watchdog_resumed(ok)

Background ==
    \/ watchdog
    \/ _shutdown
    \/ \E ok \in BOOLEAN : _shutdown_resumed(ok)
    \/ Advance

\* Concurrency of the handlers, the watchdog and shutdown; one token, one
\* speed.
Next == Requests({"a"}, {100}) \/ Returns(BOOLEAN) \/ Background
Spec == Init /\ [][Next]_vars

\* Every speed a request may carry.
SpeedNext == Requests({}, SpeedInputs) \/ Returns(BOOLEAN) \/ Background
SpeedSpec == Init /\ [][SpeedNext]_vars

\* Every session token a request may carry.
SessionNext == Requests(SessionInputs, {}) \/ Returns(BOOLEAN) \/ Background
SessionSpec == Init /\ [][SessionNext]_vars

\* Every pad operation that _shutdown awaits returns or raises.
ShutdownSpec ==
    /\ Init
    /\ [][Next]_vars
    /\ WF_vars(\E ok \in BOOLEAN : _shutdown_resumed(ok))

\* The watchdog keeps ticking, time keeps passing and every pad operation
\* returns successfully; heartbeat, start and speed requests may cease.
LiveNext ==
    \/ Requests({}, {})
    \/ Returns({TRUE})
    \/ watchdog
    \/ Advance
    \/ Quiesce
LiveSpec ==
    /\ Init
    /\ [][LiveNext]_vars
    /\ WF_vars(watchdog)
    /\ WF_vars(Advance)
    /\ WF_vars(Returns({TRUE}))

\* ================================================================ claims

\* C1: eventual stop.  Whenever the device is running and no further
\* heartbeat, start or speed request arrives, then, with the watchdog
\* ticking and every device command succeeding, the device is eventually not
\* running.
C1_EventualStop == (quiesced /\ pad.running) ~> ~pad.running

\* C2: 0.5 <= TargetSpeed <= 6.0 in every state; a heartbeat with a speed,
\* a start or a speed request carrying s stores max(0.5, min(6.0, s)); a step
\* of anything else leaves TargetSpeed as it was.
Limited(s) == IF s < 5 THEN 5 ELSE IF s > 60 THEN 60 ELSE s
C2_Stores ==
    \A v \in SpeedInputs :
        \/ target_speed' = Limited(v)
        \/ ~ \/ \E s \in Tokens \cup {NoSession} : handle_heartbeat(s, v)
             \/ handle_start(v)
             \/ handle_speed(v)
C2_Frame ==
    \/ target_speed' = target_speed
    \/ \E v \in SpeedInputs \cup {NoSpeed} : handle_start(v) \/ handle_speed(v)
    \/ \E s \in Tokens \cup {NoSession}, v \in SpeedInputs :
          handle_heartbeat(s, v)
C2_TargetSpeedClamped ==
    /\ [](5 <= target_speed /\ target_speed <= 60)
    /\ [][C2_Stores /\ C2_Frame]_vars
\* start(speed=10.0) has stored 6.0 and is starting the device at it.
C2_Witness ==
    /\ target_speed = 60
    /\ \E r \in BagToSet(inflight) :
          r.op = "start" /\ r.pc = "start" /\ r.arg = 60

\* C3: every start, set-speed or stop command is issued in a state where
\* the pad reports connected; a heartbeat or start that finds it not
\* connected requests connect first and issues nothing when that fails.
IssuedByHandler ==
    \E r \in BagToSet(inflight') :
        r.pc \in Cmds /\ CopiesIn(r, inflight') > CopiesIn(r, inflight)
Issued ==
    \/ IssuedByHandler
    \/ wd = "sleep" /\ wd' \in Cmds
    \/ sd = "off" /\ sd' = "stop"
ConnectRequested ==
    \E r \in BagToSet(inflight') :
        r.pc = "connect" /\ CopiesIn(r, inflight') > CopiesIn(r, inflight)
C3_Step ==
    /\ Issued =>
          /\ pad'.connected
          /\ ~pad.connected =>
                \E r \in BagToSet(inflight) :
                    \/ handle_heartbeat_connected(r, TRUE)
                    \/ handle_start_connected(r, TRUE)
          /\ \A r \in BagToSet(inflight) :
                /\ ~handle_heartbeat_connected(r, FALSE)
                /\ ~handle_start_connected(r, FALSE)
    /\ ~pad.connected /\ (Issued \/ ~ConnectRequested) =>
          \A s \in Tokens \cup {NoSession}, v \in SpeedInputs \cup {NoSpeed} :
              ~handle_heartbeat(s, v) /\ ~handle_start(v)
C3_CommandsWhenConnected == [][C3_Step]_vars
\* A heartbeat that found the pad not connected has connected it and is
\* starting the device.
C3_Witness ==
    /\ pad.connected /\ ~pad.running
    /\ \E r \in BagToSet(inflight) : r.op = "heartbeat" /\ r.pc = "start"

\* C4: in every state, also with a handler or the watchdog suspended on
\* the pad, a non-empty session set has its heartbeat clock set.
C4_SessionsHaveClock == sessions # {} => last_heartbeat # 0
\* A heartbeat arrived while a stop is suspended on the pad.
C4_Witness ==
    /\ sessions # {}
    /\ \E r \in BagToSet(inflight) : r.op = "stop" /\ r.pc = "stop"

\* C5: with the device running and connected, the clock holding the arrival
\* of the last heartbeat, start or speed request, and that request more than
\* SLOW_AFTER but not more than STOP_AFTER ago, the first watchdog tick
\* issues set_speed(MIN_SPEED), and the watchdog issues no second one before
\* the next such request.
C5_Idle ==
    /\ pad.running /\ pad.connected
    /\ last_signal # 0 /\ last_heartbeat = last_signal
    /\ now - last_signal > SLOW_AFTER
    /\ now - last_signal <= STOP_AFTER
C5_Step ==
    /\ watchdog /\ C5_Idle /\ slow_cmds = 0 => wd' = "set_speed"
    /\ slow_cmds' <= 1
C5_OneSlowCommand == [][C5_Step]_vars

\* C6: with the device running and the last heartbeat, start or speed
\* request more than STOP_AFTER ago, the next watchdog tick issues stop;
\* when that stop returns the device is not running and the session set is
\* empty; the watchdog issues no second stop before the next such request.
C6_Idle ==
    /\ pad.running
    /\ last_signal # 0
    /\ now - last_signal > STOP_AFTER
C6_Step ==
    /\ watchdog /\ C6_Idle => wd' = "stop"
    /\ watchdog_resumed(TRUE) /\ wd = "stop" =>
          ~pad'.running /\ sessions' = {}
    /\ stop_cmds' <= 1
C6_StoppedAfterTick == [][C6_Step]_vars

\* C7: a stop request without a session token issues pad.stop() when the
\* pad is connected and running, and the handler always ends with the
\* session set empty and the clock unset.
C7_Ended == sessions' = {} /\ last_heartbeat' = 0
C7_Step ==
    /\ handle_stop(NoSession) =>
          IF pad.connected /\ pad.running
          THEN \E r \in BagToSet(inflight') :
                  /\ r.op = "stop" /\ r.pc = "stop"
                  /\ CopiesIn(r, inflight') > CopiesIn(r, inflight)
          ELSE C7_Ended
    /\ \A r \in BagToSet(inflight), ok \in BOOLEAN :
          handle_stop_done(r, ok) /\ r.no_token => C7_Ended
C7_TokenlessStopResets == [][C7_Step]_vars

\* C8: a stop request with session token s removes s from the session set.
\* When other sessions remain it issues no pad command and leaves the
\* clock, the target speed and the remaining sessions as they were; when
\* none remains (and the pad is connected and running) it issues pad.stop().
C8_Step ==
    \A s \in Tokens :
        handle_stop(s) =>
            /\ s \notin sessions'
            /\ IF sessions \ {s} # {}
               THEN /\ sessions' = sessions \ {s}
                    /\ inflight' = inflight
                    /\ UNCHANGED <<last_heartbeat, target_speed>>
               ELSE pad.connected /\ pad.running =>
                       \E r \in BagToSet(inflight') :
                          /\ r.op = "stop" /\ r.pc = "stop"
                          /\ CopiesIn(r, inflight') > CopiesIn(r, inflight)
C8_StopWithSession == [][C8_Step]_vars

\* C9: a session-end request for s removes s and nothing else from the
\* session set; it issues pad.stop() exactly when the set is then empty and
\* the pad is connected and running; neither the request nor the return of
\* its pad.stop() changes the clock or the target speed.
C9_Step ==
    /\ \A s \in Tokens \cup {NoSession} :
          handle_session_end(s) =>
             /\ sessions' =
                   sessions \ {IF s = NoSession THEN "default" ELSE s}
             /\ UNCHANGED <<last_heartbeat, target_speed>>
             /\ IF sessions' = {} /\ pad.connected /\ pad.running
                THEN \E r \in BagToSet(inflight') :
                        /\ r.op = "session_end" /\ r.pc = "stop"
                        /\ CopiesIn(r, inflight') > CopiesIn(r, inflight)
                ELSE inflight' = inflight
    /\ \A r \in BagToSet(inflight), ok \in BOOLEAN :
          handle_session_end_done(r, ok) =>
             UNCHANGED <<last_heartbeat, target_speed, sessions>>
C9_SessionEndFrame == [][C9_Step]_vars
\* The last session has ended with the device running: its stop is on the
\* way to the pad and the clock is still set.
C9_Witness ==
    /\ sessions = {} /\ last_heartbeat # 0 /\ pad.running
    /\ \E r \in BagToSet(inflight) : r.op = "session_end" /\ r.pc = "stop"

\* C10: the session count of the snapshot is the number of distinct tokens
\* heartbeaten (none given counting as "default") and not ended or stopped
\* since, counted from the last stop without a token or watchdog stop.
C10_SessionCount == _state.sessions = Cardinality(live)

\* C11: a heartbeat that goes on from a connected pad (at once, or after its
\* pad.connect() returned) issues pad.start(target_speed) exactly when the
\* device is not running at that moment; with the device running it issues
\* pad.set_speed(target_speed) exactly when it carried a speed, and nothing
\* otherwise.
C11_Command(bag, has_speed) ==
    IF ~pad.running
    THEN inflight' = bag (+) SetToBag({Frame("heartbeat", "start", FALSE,
                                             FALSE, target_speed')})
    ELSE IF has_speed
         THEN inflight' = bag (+) SetToBag({Frame("heartbeat", "set_speed",
                                                  FALSE, FALSE,
                                                  target_speed')})
         ELSE inflight' = bag
C11_Step ==
    /\ pad.connected =>
          \A s \in Tokens \cup {NoSession}, v \in SpeedInputs \cup {NoSpeed} :
              handle_heartbeat(s, v) => C11_Command(inflight, v # NoSpeed)
    /\ \A r \in BagToSet(inflight) :
          handle_heartbeat_connected(r, TRUE) =>
             C11_Command(inflight (-) SetToBag({r}), r.has_speed)
C11_HeartbeatCommand == [][C11_Step]_vars
\* A heartbeat carrying speed 10.0 found the device running at the default
\* speed and is setting it to 6.0.
C11_Witness ==
    /\ pad.running /\ pad.speed = DEFAULT_SPEED /\ target_speed = 60
    /\ \E r \in BagToSet(inflight) :
          r.op = "heartbeat" /\ r.pc = "set_speed" /\ r.arg = 60

\* C12: when the pad.connect() of a heartbeat or of a start raises, the
\* handler answers 503 and issues no pad command, the pad is as it was, and
\* the server and the watchdog go on as before; nothing else answers 503.
C12_ConnectFailed ==
    \E r \in BagToSet(inflight) :
        \/ handle_heartbeat_connected(r, FALSE)
        \/ handle_start_connected(r, FALSE)
C12_Step ==
    /\ C12_ConnectFailed =>
          /\ unavailable'
          /\ ~Issued
          /\ pad' = pad
          /\ Serving' /\ wd' = wd
    /\ unavailable' => C12_ConnectFailed
C12_GatewayUnavailable == [][C12_Step]_vars
\* The connect of a request has just failed: 503, pad not connected, nothing
\* on the way to it.
C12_Witness ==
    unavailable /\ ~pad.connected /\ ~pad.running /\ inflight = EmptyBag

\* C13: in every state at most one of the request handlers, the watchdog
\* and _shutdown is suspended inside pad.start(), pad.set_speed() or
\* pad.stop().
C13_Commanding ==
    [r \in {x \in BagToSet(inflight) : x.pc \in Cmds} |-> inflight[r]]
C13_InFlight ==
    BagCardinality(C13_Commanding)
       + (IF wd \in Cmds THEN 1 ELSE 0)
       + (IF sd = "stop" THEN 1 ELSE 0)
C13_OneCommandInFlight == C13_InFlight <= 1

\* C14: when the pad.stop() or pad.set_speed() of the watchdog raises, the
\* loop goes back to its sleep, from where it ticks again (and, the device
\* still running past STOP_AFTER, issues the stop again).
C14_Step == watchdog_resumed(FALSE) => wd' = "sleep"
C14_WatchdogSurvives == [][C14_Step]_vars

\* C15: in every state the watchdog's slowed flag is set only if the clock
\* is set and the device is running.
C15_DecayFlagInvariant == slowed => last_heartbeat # 0 /\ pad.running

\* C16: the watchdog has slowed the device (slowed is set), a heartbeat has
\* arrived since (no slow command counted after it) with the device still
\* running, and that heartbeat is again more than SLOW_AFTER but not more
\* than STOP_AFTER ago: the watchdog tick issues set_speed(MIN_SPEED) again.
C16_SecondIdle ==
    /\ slowed /\ slow_cmds = 0
    /\ pad.running /\ pad.connected
    /\ last_heartbeat # 0 /\ last_heartbeat = last_signal
    /\ now - last_heartbeat > SLOW_AFTER
    /\ now - last_heartbeat <= STOP_AFTER
C16_Step == watchdog /\ C16_SecondIdle => wd' = "set_speed"
C16_HeartbeatResetsDecay == [][C16_Step]_vars

\* C17: a speed request carrying s stores max(0.5, min(6.0, s)) (of the
\* default speed when it carries none) and sets the clock to now; it issues
\* pad.set_speed(target_speed) exactly when the pad is connected and
\* running and nothing otherwise; neither the request nor the return of its
\* pad.set_speed() changes the session set, connects the pad or starts the
\* device.
C17_Step ==
    /\ \A v \in SpeedInputs \cup {NoSpeed} :
          handle_speed(v) =>
             /\ target_speed' =
                   Limited(IF v = NoSpeed THEN DEFAULT_SPEED ELSE v)
             /\ last_heartbeat' = now
             /\ sessions' = sessions /\ pad' = pad
             /\ inflight' =
                   IF pad.connected /\ pad.running
                   THEN inflight (+) SetToBag({Frame("speed", "set_speed",
                                                     FALSE, FALSE,
                                                     target_speed')})
                   ELSE inflight
    /\ \A r \in BagToSet(inflight), ok \in BOOLEAN :
          handle_speed_done(r, ok) =>
             /\ UNCHANGED <<target_speed, last_heartbeat, sessions>>
             /\ pad'.connected = pad.connected /\ pad'.running = pad.running
             /\ inflight' = inflight (-) SetToBag({r})
C17_SetSpeedFrame == [][C17_Step]_vars
\* A speed request carrying 0.3 found the device running: it has stored 0.5,
\* refreshed the clock and is setting the device to 0.5.
C17_Witness ==
    /\ target_speed = 5 /\ last_heartbeat = now /\ pad.running
    /\ \E r \in BagToSet(inflight) :
          r.op = "speed" /\ r.pc = "set_speed" /\ r.arg = 5

\* C18: _shutdown issues pad.stop() only with the pad connected and
\* running and pad.disconnect() only with it connected, the disconnect
\* never while its stop is awaited; whether the stop returns or raises it
\* goes on to the disconnect of a connected pad, and whether that returns or
\* raises it ends; once begun, _shutdown always ends.
C18_Step ==
    /\ sd = "off" /\ sd' = "stop" => pad.connected /\ pad.running
    /\ sd = "off" /\ sd' = "disconnect" => pad.connected /\ ~pad.running
    /\ sd = "off" /\ sd' = "done" => ~pad.connected
    /\ sd = "stop" /\ sd' # sd =>
          sd' = IF pad'.connected THEN "disconnect" ELSE "done"
    /\ sd = "disconnect" /\ sd' # sd => sd' = "done"
    /\ sd = "done" => sd' = "done"
C18_ShutdownCompletes ==
    /\ [][C18_Step]_vars
    /\ (sd # "off") ~> (sd = "done")
\* The stop of _shutdown has raised, the device is still running, and
\* _shutdown has gone on to disconnect.
C18_Witness == sd = "disconnect" /\ pad.running /\ pad.connected

\* C19: a heartbeat that finds the pad not connected has, before it awaits
\* pad.connect(), put its token into the session set, set the clock to now
\* and stored the clamped speed it carried; when the connect raises, the 503
\* answer takes none of this back and leaves the pad as it was.
C19_Step ==
    /\ ~pad.connected =>
          \A s \in Tokens \cup {NoSession}, v \in SpeedInputs \cup {NoSpeed} :
              handle_heartbeat(s, v) =>
                 /\ (IF s = NoSession THEN "default" ELSE s) \in sessions'
                 /\ last_heartbeat' = now
                 /\ v # NoSpeed => target_speed' = Limited(v)
                 /\ pad' = pad
    /\ \A r \in BagToSet(inflight) :
          handle_heartbeat_connected(r, FALSE) =>
             /\ unavailable'
             /\ UNCHANGED <<sessions, last_heartbeat, target_speed, pad>>
             /\ inflight' = inflight (-) SetToBag({r})
C20_Step ==
    /\ pad.connected /\ pad.running =>
          \A s \in Tokens \cup {NoSession} :
              handle_heartbeat(s, NoSpeed) =>
                 /\ inflight' = inflight
                 /\ pad' = pad
                 /\ target_speed' = target_speed
    /\ pad.running /\ pad.speed = MIN_SPEED
          /\ pad'.running /\ pad'.speed # MIN_SPEED =>
             \E r \in BagToSet(inflight) :
                 \/ handle_heartbeat_done(r, TRUE)
                 \/ handle_speed_done(r, TRUE)
                 \/ handle_start_done(r, TRUE)
C20_StaysSlowed == [][C20_Step]_vars
\* The watchdog has slowed the device, and a heartbeat without a speed has
\* just been handled: the device is at MIN_SPEED, the target speed is the
\* default, nothing is on the way to the pad.
C20_Witness ==
    /\ slowed /\ pad.running /\ pad.speed = MIN_SPEED
    /\ last_heartbeat = now /\ sessions # {}
    /\ target_speed = DEFAULT_SPEED
    /\ inflight = EmptyBag /\ wd = "sleep"

====
